---- MODULE Spec2Model ----
(***************************************************************************)
(* A model of src/src/handlers/VintedHandler.ts (class VintedScraper):     *)
(* the session cookie, the request pipeline (#request) with its response   *)
(* classification and re-authentication, #fetchSessionCookie, boostItem    *)
(* and the query normaliser #getQueryParameters.                           *)
(*                                                                         *)
(* Text is modelled as a sequence of symbols.  A symbol is either one      *)
(* character ("=", ";", "<", "&", "?") or a fixed piece of text that the   *)
(* code searches for as a whole ("_vinted_fr_session", "catalog", "[]").   *)
(***************************************************************************)
EXTENDS Integers, Sequences, FiniteSets, TLC

\* ------------------------------------------------------------------ bounds
\* longest set-cookie header the site root answers with, in symbols
MaxHdrLen == 4
\* longest response body of an authenticated GET, in symbols
MaxBodyLen == 2
\* most HTTP requests (session acquisitions and GETs) one external call issues
MaxRequests == 4
\* most parameters in the query string of a search URL
MaxParams == 3
\* largest number of views asked of boostItem
MaxViews == 3
\* most dispatch attempts of one boostItem call that fail synchronously
MaxFailures == 3

\* ------------------------------------------------------------ text helpers
SeqsUpTo(S, n) == UNION {[1..k -> S] : k \in 0..n}

\* does pat occur in s at position i
MatchAt(s, pat, i) ==
    /\ i >= 1
    /\ i + Len(pat) - 1 <= Len(s)
    /\ \A j \in 1..Len(pat) : s[i + j - 1] = pat[j]

\* String.prototype.indexOf, 1-based; 0 when pat does not occur
IndexOf(s, pat) ==
    IF \E i \in 1..Len(s) : MatchAt(s, pat, i)
    THEN CHOOSE i \in 1..Len(s) :
            /\ MatchAt(s, pat, i)
            /\ \A j \in 1..(i - 1) : ~MatchAt(s, pat, j)
    ELSE 0

\* String.prototype.includes
Includes(s, pat) == IndexOf(s, pat) # 0

\* String.prototype.split with a non-empty separator: the pieces, in order
RECURSIVE Split(_, _)
Split(s, sep) ==
    LET i == IndexOf(s, sep)
    IN  IF i = 0
        THEN <<s>>
        ELSE <<SubSeq(s, 1, i - 1)>> \o Split(SubSeq(s, i + Len(sep), Len(s)), sep)

\* String.prototype.replaceAll with a non-empty pattern, left to right
RECURSIVE ReplaceAll(_, _, _)
ReplaceAll(s, pat, rep) ==
    LET i == IndexOf(s, pat)
    IN  IF i = 0
        THEN s
        ELSE SubSeq(s, 1, i - 1) \o rep
                \o ReplaceAll(SubSeq(s, i + Len(pat), Len(s)), pat, rep)

\* ------------------------------------------------------- the session cookie
\* the cookie name searched in the set-cookie header, one symbol
CookieName == "_vinted_fr_session"

HdrAlphabet == {CookieName, "=", ";", "a"}

\* res.headers.get("set-cookie") is null: the response has no such header
NoHeader == <<"(no set-cookie header)">>

\* what the site root may answer to a session-acquisition request
Headers == {NoHeader} \cup SeqsUpTo(HdrAlphabet, MaxHdrLen)

\* #sessionCookie before any assignment (an optional private field)
Undefined == <<"undefined">>

\* JavaScript truthiness of #sessionCookie: undefined and "" are falsy
Truthy(tok) == tok # Undefined /\ tok # <<>>

\* The outcome of #fetchSessionCookie on the header hdr: the error it throws
\* ("" when it returns) and the value it assigns to #sessionCookie.
\*   "Cannot fetch cookie" : the header is null or lacks the cookie name
\*   "TypeError"           : split("_vinted_fr_session=")[1] is undefined
ParseSetCookie(hdr) ==
    IF hdr = NoHeader \/ ~Includes(hdr, <<CookieName>>)
    THEN [err |-> "Cannot fetch cookie", token |-> Undefined]
    ELSE LET parts == Split(hdr, <<CookieName, "=">>)
         IN  IF Len(parts) < 2
             THEN [err |-> "TypeError", token |-> Undefined]
             ELSE [err |-> "", token |-> Split(parts[2], <<";">>)[1]]

\* ---------------------------------------------------------- response bodies
\* A body is a sequence of pieces of text.  A piece with a key is one member
\* "key":"val" of a JSON object; a piece without a key is raw text.  A body
\* made of members only stands for the JSON object with these members; the
\* body <<>> is the empty text.
RateLimitText == "Request rate limit exceeded"

RawPieces ==
    { [key |-> "", val |-> RateLimitText],
      [key |-> "", val |-> "<"],
      [key |-> "", val |-> "null"] }

MemberPieces ==
    { [key |-> "message_code", val |-> "invalid_authentication_token"],
      [key |-> "message_code", val |-> "not_found"],
      [key |-> "items", val |-> "[]"],
      [key |-> "message", val |-> RateLimitText],
      [key |-> "title", val |-> "a<b"] }

Bodies == SeqsUpTo(RawPieces \cup MemberPieces, MaxBodyLen)

\* text.includes("Request rate limit exceeded")
IncludesRateLimit(text) == \E i \in 1..Len(text) : text[i].val = RateLimitText

\* text.includes("<")
IncludesLt(text) == \E i \in 1..Len(text) : text[i].val \in {"<", "a<b"}

\* JSON.parse succeeds on "null" and on an object of members
IsJson(text) ==
    \/ text = <<[key |-> "", val |-> "null"]>>
    \/ Len(text) >= 1 /\ \A i \in 1..Len(text) : text[i] \in MemberPieces

IsJsonNull(text) == text = <<[key |-> "", val |-> "null"]>>

\* the object JSON.parse returns: of a repeated key the last member wins
JsonObject(text) ==
    [k \in {text[i].key : i \in 1..Len(text)} |->
        LET last == CHOOSE i \in 1..Len(text) :
                        /\ text[i].key = k
                        /\ \A j \in (i + 1)..Len(text) : text[j].key # k
        IN  text[last].val]

\* json.proxy = proxy
WithProxy(obj, proxy) ==
    [k \in DOMAIN obj \cup {"proxy"} |-> IF k = "proxy" THEN proxy ELSE obj[k]]

\* json.message_code
MessageCode(obj) ==
    IF "message_code" \in DOMAIN obj THEN obj["message_code"] ELSE "undefined"

NoPayload == [none |-> "none"]

\* Classify with the "<" test before the rate-limit test
ClassifyLtFirst(text, proxy) ==
    IF IncludesLt(text)
    THEN [kind |-> "GatewayError", payload |-> NoPayload]
    ELSE IF IncludesRateLimit(text)
    THEN [kind |-> "RateLimitError", payload |-> NoPayload]
    ELSE IF ~IsJson(text)
    THEN [kind |-> "MalformedJsonError", payload |-> NoPayload]
    ELSE IF IsJsonNull(text)
    THEN [kind |-> "TypeError", payload |-> NoPayload]
    ELSE LET obj  == JsonObject(text)
             json == IF proxy # "" THEN WithProxy(obj, proxy) ELSE obj
         IN  IF MessageCode(json) = "invalid_authentication_token"
             THEN [kind |-> "StaleToken", payload |-> NoPayload]
             ELSE IF MessageCode(json) = "not_found"
             THEN [kind |-> "NotFoundError", payload |-> NoPayload]
             ELSE [kind |-> "Success", payload |-> json]

\* Classify with the "<" test only for a body that is not JSON
ClassifyJsonFirst(text, proxy) ==
    IF IncludesRateLimit(text)
    THEN [kind |-> "RateLimitError", payload |-> NoPayload]
    ELSE IF ~IsJson(text)
    THEN IF IncludesLt(text)
         THEN [kind |-> "GatewayError", payload |-> NoPayload]
         ELSE [kind |-> "MalformedJsonError", payload |-> NoPayload]
    ELSE IF IsJsonNull(text)
    THEN [kind |-> "TypeError", payload |-> NoPayload]
    ELSE LET obj  == JsonObject(text)
             json == IF proxy # "" THEN WithProxy(obj, proxy) ELSE obj
         IN  IF MessageCode(json) = "invalid_authentication_token"
             THEN [kind |-> "StaleToken", payload |-> NoPayload]
             ELSE IF MessageCode(json) = "not_found"
             THEN [kind |-> "NotFoundError", payload |-> NoPayload]
             ELSE [kind |-> "Success", payload |-> json]

\* The classification of one response, lines 114-137 of #request, in the
\* code's order.  kind is the error thrown, "StaleToken" for the branch that
\* re-acquires and retries, or "Success" with the object returned.
Classify(text, proxy) ==
    IF IncludesRateLimit(text)
    THEN [kind |-> "RateLimitError", payload |-> NoPayload]
    ELSE IF IncludesLt(text)
    THEN [kind |-> "GatewayError", payload |-> NoPayload]
    ELSE IF ~IsJson(text)
    THEN [kind |-> "MalformedJsonError", payload |-> NoPayload]
    ELSE IF IsJsonNull(text)
    THEN [kind |-> "TypeError", payload |-> NoPayload]
    ELSE LET obj  == JsonObject(text)
             json == IF proxy # "" THEN WithProxy(obj, proxy) ELSE obj
         IN  IF MessageCode(json) = "invalid_authentication_token"
             THEN [kind |-> "StaleToken", payload |-> NoPayload]
             ELSE IF MessageCode(json) = "not_found"
             THEN [kind |-> "NotFoundError", payload |-> NoPayload]
             ELSE [kind |-> "Success", payload |-> json]


\* ------------------------------------------------------ the query normaliser
\* The symbols of a search URL.  "%5B%5D" is the percent-encoding of "[]",
\* "%20" that of a blank, and "%" alone is a malformed escape sequence.
Blank == " "

\* decodeURI, symbol by symbol; it throws URIError on a malformed escape
DecodeSymbol(x) ==
    CASE x = "%5B%5D" -> "[]"
      [] x = "%20"    -> Blank
      [] OTHER        -> x

DecodeURI(url) ==
    IF \E i \in 1..Len(url) : url[i] = "%"
    THEN [err |-> "URIError", val |-> <<>>]
    ELSE [err |-> "", val |-> [i \in 1..Len(url) |-> DecodeSymbol(url[i])]]

\* the symbols made of the letters a-z only
LowerAlpha ==
    {"www", "vinted", "be", "vetements", "catalog", "status", "brand", "time", "s"}

\* "www" followed by any one character: the dot of (www.)? is not escaped
WwwAny == {"www.", "www-"}

\* URI.match(/^https:\/\/(www.)?vinted\.([a-z]+)\/(vetements|catalog)\?[^\s]+/)
RECURSIVE TldEnd(_, _)
TldEnd(u, j) ==
    IF j <= Len(u) /\ u[j] \in LowerAlpha THEN TldEnd(u, j + 1) ELSE j

MatchesVintedUrl(u) ==
    /\ Len(u) >= 1
    /\ u[1] = "https://"
    /\ LET k == IF Len(u) >= 2 /\ u[2] \in WwwAny THEN 3 ELSE 2
           e == TldEnd(u, k + 2)
       IN  /\ Len(u) >= e + 3
           /\ u[k] = "vinted"
           /\ u[k + 1] = "."
           /\ e > k + 2
           /\ u[e] = "/"
           /\ u[e + 1] \in {"vetements", "catalog"}
           /\ u[e + 2] = "?"
           /\ u[e + 3] # Blank

\* the three replaceAll calls with the one of "[]" first
SubstituteBracketsFirst(q) ==
    ReplaceAll(
        ReplaceAll(
            ReplaceAll(q, <<"[]">>, <<"s">>),
            <<"catalog", "[]">>, <<"catalog", "_id", "[]">>),
        <<"status", "[]">>, <<"status", "_id", "[]">>)

\* lines 163-166: the three replaceAll calls, in the code's order
Substitute(q) ==
    ReplaceAll(
        ReplaceAll(
            ReplaceAll(q, <<"catalog", "[]">>, <<"catalog", "_id", "[]">>),
            <<"status", "[]">>, <<"status", "_id", "[]">>),
        <<"[]">>, <<"s">>)

\* paramsObject is the sequence of its own properties [key, val] in the order
\* of their creation
HasKey(obj, k) == \E i \in 1..Len(obj) : obj[i].key = k
KeyIndex(obj, k) == CHOOSE i \in 1..Len(obj) : obj[i].key = k

\* paramsObject is created by {} and inherits from Object.prototype:
\* paramsObject["toString"] (like every inherited method) reads as a function,
\* which is truthy and converts to the text below; paramsObject["__proto__"]
\* reads as Object.prototype, and assigning a string to it does nothing.
InheritedMethods == {<<"toString">>}
FunctionText == "function toString() { [native code] }"

\* lines 179-181: an existing value that is truthy (not "") is extended, any
\* other is (re)assigned
AddParam(obj, k, v) ==
    IF k = <<"__proto__">>
    THEN obj
    ELSE IF HasKey(obj, k) /\ obj[KeyIndex(obj, k)].val # <<>>
    THEN [obj EXCEPT ![KeyIndex(obj, k)].val = @ \o <<",">> \o v]
    ELSE IF HasKey(obj, k)
    THEN [obj EXCEPT ![KeyIndex(obj, k)].val = v]
    ELSE IF k \in InheritedMethods
    THEN Append(obj, [key |-> k, val |-> <<FunctionText, ",">> \o v])
    ELSE Append(obj, [key |-> k, val |-> v])

\* lines 174-182: params.forEach; it throws at the first parameter that does
\* not split into two parts on "="
RECURSIVE Organize(_, _)
Organize(params, obj) ==
    IF params = <<>>
    THEN [err |-> "", obj |-> obj]
    ELSE LET kv == Split(Head(params), <<"=">>)
         IN  IF Len(kv) # 2
             THEN [err |-> "Invalid URI parameters: param", obj |-> obj]
             ELSE Organize(Tail(params), AddParam(obj, kv[1], kv[2]))

\* A property name that is an array index ("1", "2", "12"): digits without a
\* leading zero.  Object.keys lists these first, in ascending numeric order.
Digits == {"1", "2"}
DigitValue(d) == IF d = "1" THEN 1 ELSE 2
IsIndexKey(k) == Len(k) >= 1 /\ \A i \in 1..Len(k) : k[i] \in Digits

RECURSIVE IndexValue(_)
IndexValue(k) ==
    IF k = <<>> THEN 0
    ELSE 10 * IndexValue(SubSeq(k, 1, Len(k) - 1)) + DigitValue(k[Len(k)])

\* the sequence s without its element at position i
RemoveAt(s, i) == SubSeq(s, 1, i - 1) \o SubSeq(s, i + 1, Len(s))

RECURSIVE SortIndexKeys(_)
SortIndexKeys(ks) ==
    IF ks = <<>> THEN <<>>
    ELSE LET m == CHOOSE i \in 1..Len(ks) :
                    \A j \in 1..Len(ks) :
                        \/ IndexValue(ks[i]) < IndexValue(ks[j])
                        \/ IndexValue(ks[i]) = IndexValue(ks[j]) /\ i <= j
         IN  <<ks[m]>> \o SortIndexKeys(RemoveAt(ks, m))

\* Object.keys(paramsObject)
ObjectKeys(obj) ==
    LET ks == [i \in 1..Len(obj) |-> obj[i].key]
    IN  SortIndexKeys(SelectSeq(ks, IsIndexKey))
            \o SelectSeq(ks, LAMBDA k : ~IsIndexKey(k))

\* lines 184-194: the rendering, without the key "time"
RECURSIVE Render(_, _, _)
Render(ks, obj, finalParams) ==
    IF ks = <<>> THEN finalParams
    ELSE LET k == Head(ks)
             v == obj[KeyIndex(obj, k)].val
         IN  IF k # <<"time">>
             THEN IF finalParams # <<>>
                  THEN Render(Tail(ks), obj, finalParams \o <<"&">> \o k \o <<"=">> \o v)
                  ELSE Render(Tail(ks), obj, finalParams \o k \o <<"=">> \o v)
             ELSE Render(Tail(ks), obj, finalParams)

\* #getQueryParameters(url): the error thrown ("" if none) and the string
\* returned
GetQueryParameters(url) ==
    LET d == DecodeURI(url)
    IN  IF d.err # ""
        THEN [err |-> d.err, val |-> <<>>]
        ELSE IF ~MatchesVintedUrl(d.val)
        THEN [err |-> "Invalid URI format", val |-> <<>>]
        ELSE IF Len(Split(d.val, <<"?">>)) # 2
        THEN [err |-> "Invalid URI parameters", val |-> <<>>]
        ELSE LET queryString == Substitute(Split(d.val, <<"?">>)[2])
                 o == Organize(Split(queryString, <<"&">>), <<>>)
             IN  IF o.err # ""
                 THEN [err |-> o.err, val |-> <<>>]
                 ELSE [err |-> "", val |-> Render(ObjectKeys(o.obj), o.obj, <<>>)]

\* ------------------------------------------------------------------- state
VARIABLES
    hasProxy,       \* #proxyHandler is set: the constructor was given proxies
    sessionCookie,  \* #sessionCookie
    call,           \* per caller: the external call it runs and what it did
    sent,           \* per caller: the HTTP request it issued last (the one it
                    \* awaits while its pc is "acq95", "acq129" or "get")
    boost,          \* the boostItem call
    url,            \* the argument of #getQueryParameters
    queryString     \* what #getQueryParameters did with url

vars == <<hasProxy, sessionCookie, call, sent, boost, url, queryString>>

\* the callers of search, fetchUser and fetchItem
Callers == {"A", "B"}

\* what this.#proxyHandler.getProxy() gives: a proxy, "" (none), or it throws
\* (the throw stands for a failure of getProxy or of HttpsProxyAgent(proxy))
ProxyThrows == "(throws)"
ProxyOutcomes == {"", "proxy1", ProxyThrows}

\* the outcomes that can happen with and without a proxy handler
ProxyInputs == IF hasProxy THEN ProxyOutcomes ELSE {""}

RootUrl == [ep |-> "https://vinted.de", arg |-> <<>>]
NoUrl == [ep |-> "", arg |-> <<>>]

\* the URLs search(url), fetchUser(id) and fetchItem(id) request
SearchUrl(qs) == [ep |-> "https://www.vinted.be/api/v2/catalog/items?", arg |-> qs]
UserUrl(id) == [ep |-> "https://www.vinted.be/api/v2/users/", arg |-> <<id>>]
ItemUrl(id) == [ep |-> "https://www.vinted.de/api/v2/items/", arg |-> <<id>>]

Ids == {"7"}

\* no acquisition response, no GET response handled yet
NoResponse == <<"(no response)">>
NoText == <<[key |-> "", val |-> "(no response)"]>>

NoRequest == [kind |-> "none", url |-> NoUrl, cookie |-> Undefined, proxy |-> ""]

\* pc: "idle"   no call yet
\*     "acq95"  awaiting #fetchSessionCookie called at line 95
\*     "acq129" awaiting #fetchSessionCookie called at line 129
\*     "resume95", "resume129"  #fetchSessionCookie has returned and the
\*              continuation of the await of line 95, of line 129, is queued
\*     "get"    awaiting the fetch of line 107
\*     "done"   the promise of the external call is settled (result)
IdleCall ==
    [ pc |-> "idle", url |-> NoUrl,
      source |-> <<>>,    \* the argument of search, <<>> for the other calls
      nGet |-> 0,         \* authenticated GETs issued by this call
      nAcq |-> 0,         \* session-acquisition requests issued by this call
      nForced |-> 0,      \* of these, the ones issued at line 129
      nStale |-> 0,       \* responses of this call classified StaleToken
      nProxy |-> 0,       \* calls of getProxy made by this call
      gotProxy |-> "",    \* what the last of them returned
      failedAt |-> "",    \* the pc at which #fetchSessionCookie threw
      startHeld |-> FALSE,   \* a token was held when the call started
      staleCookie |-> Undefined,  \* the cookie of the GET classified StaleToken,
                                  \* kept until the retry is issued
      tokenChanged |-> FALSE,     \* the last GET was a retry and carried another
                                  \* token than the GET it retries
      setCookie |-> NoResponse,  \* the set-cookie header of the acquisition
                                 \* response handled last, until the next is asked
      text |-> NoText,    \* the body of the GET response handled last
      result |-> "", payload |-> NoPayload ]

\* the call is settled with the error err
Throw(rec, err) == [rec EXCEPT !.pc = "done", !.result = err]

\* GetProxy that keeps the first proxy: getProxy is called once per call
GetProxyCached(rec, p) ==
    IF hasProxy /\ rec.nProxy = 0
    THEN [rec EXCEPT !.nProxy = @ + 1, !.gotProxy = p] ELSE rec

\* lines 103-105 and 208-210: getProxy is called when a handler is set
GetProxy(rec, p) ==
    IF hasProxy THEN [rec EXCEPT !.nProxy = @ + 1, !.gotProxy = p] ELSE rec

\* the request the call rec issued last, prev being the caller's last request
LastRequest(rec, prev) == IF rec.nGet + rec.nAcq = 0 THEN NoRequest ELSE prev

\* #fetchSessionCookie up to its await (lines 203-215): the proxy, then the
\* request to the site root.  at is "acq95" or "acq129".
StartFetchSessionCookie(c, rec, at, p) ==
    IF p = ProxyThrows
    THEN /\ call' = [call EXCEPT ![c] = Throw(GetProxy(rec, p), "ProxyError")]
         /\ sent' = [sent EXCEPT ![c] = LastRequest(rec, @)]
    ELSE /\ rec.nGet + rec.nAcq < MaxRequests
         /\ call' = [call EXCEPT ![c] =
                [GetProxy(rec, p) EXCEPT !.pc = at, !.nAcq = @ + 1,
                            !.nForced = @ + (IF at = "acq129" THEN 1 ELSE 0),
                            !.setCookie = NoResponse]]
         /\ sent' = [sent EXCEPT ![c] =
                [kind |-> "acq", url |-> RootUrl, cookie |-> Undefined, proxy |-> p]]

\* #request from line 98 to its await at line 107: the proxy, then the GET
\* with the cookie header built from the token held now
StartGet(c, rec, tok, p) ==
    IF p = ProxyThrows
    THEN /\ call' = [call EXCEPT ![c] = Throw(GetProxy(rec, p), "ProxyError")]
         /\ sent' = [sent EXCEPT ![c] = LastRequest(rec, @)]
    ELSE /\ rec.nGet + rec.nAcq < MaxRequests
         /\ call' = [call EXCEPT ![c] =
                [GetProxy(rec, p) EXCEPT !.pc = "get", !.nGet = @ + 1,
                            !.tokenChanged = rec.nStale > 0 /\ tok # rec.staleCookie,
                            !.staleCookie = Undefined]]
         /\ sent' = [sent EXCEPT ![c] =
                [kind |-> "get", url |-> rec.url, cookie |-> tok, proxy |-> p]]

\* EnterRequest with the token read before the acquisition stored the new one
EnterRequestHeldToken(c, rec, tok, p) ==
    IF ~Truthy(sessionCookie)
    THEN StartFetchSessionCookie(c, rec, "acq95", p)
    ELSE StartGet(c, rec, sessionCookie, p)

\* EnterRequest without the test of line 94: it acquires a session every time
EnterRequestAlwaysAcquires(c, rec, tok, p) ==
    StartFetchSessionCookie(c, rec, "acq95", p)

\* EnterRequest without the test of line 94: it never acquires a session
EnterRequestNeverAcquires(c, rec, tok, p) ==
    StartGet(c, rec, tok, p)

\* #request from its entry to its first await (lines 94-107), tok being the
\* token held at the entry
EnterRequest(c, rec, tok, p) ==
    IF ~Truthy(tok)
    THEN StartFetchSessionCookie(c, rec, "acq95", p)
    ELSE StartGet(c, rec, tok, p)

\* boostItem runs without an await: nothing else runs before it returns
BoostRunning == boost.pc = "loop"

\* an external call of #request(target), src being the argument of search:
\* the caller starts it when it runs none
StartCallFrom(c, target, src, p) ==
    /\ call[c].pc \in {"idle", "done"}
    /\ ~BoostRunning
    /\ EnterRequest(c, [IdleCall EXCEPT !.url = target, !.source = src,
                                        !.startHeld = Truthy(sessionCookie)],
                    sessionCookie, p)
    /\ UNCHANGED <<hasProxy, sessionCookie, boost, url, queryString>>

StartCall(c, target, p) == StartCallFrom(c, target, <<>>, p)

\* search that calls #request without looking at what #getQueryParameters did
SearchCallRequestsFirst(c, u, p) ==
    StartCallFrom(c, SearchUrl(GetQueryParameters(u).val), u, p)

\* search(u), lines 35-36: #getQueryParameters throws before #request is called
SearchCall(c, u, p) ==
    LET q == GetQueryParameters(u)
    IN  IF q.err # ""
        THEN /\ call[c].pc \in {"idle", "done"}
             /\ ~BoostRunning
             /\ call' = [call EXCEPT ![c] =
                    Throw([IdleCall EXCEPT !.source = u,
                                           !.startHeld = Truthy(sessionCookie)],
                          IF q.err = "URIError" THEN "URIError" ELSE "InvalidUrlError")]
             /\ sent' = [sent EXCEPT ![c] = NoRequest]
             /\ UNCHANGED <<hasProxy, sessionCookie, boost, url, queryString>>
        ELSE StartCallFrom(c, SearchUrl(q.val), u, p)

\* AcquisitionResponse that forgets the token held when the acquisition fails
AcquisitionResponseDropsToken(c, hdr, p) ==
    /\ call[c].pc \in {"acq95", "acq129"}
    /\ ~BoostRunning
    /\ \E r \in {ParseSetCookie(hdr)} :
         LET rec == [call[c] EXCEPT !.setCookie = hdr]
         IN  IF r.err # ""
             THEN /\ call' = [call EXCEPT ![c] =
                          Throw([rec EXCEPT !.failedAt = call[c].pc],
                                IF r.err = "Cannot fetch cookie"
                                THEN "SessionAcquisitionError" ELSE r.err)]
                  /\ UNCHANGED sent
                  /\ sessionCookie' = Undefined
             ELSE /\ sessionCookie' = r.token
                  /\ IF call[c].pc = "acq95"
                     THEN StartGet(c, rec, r.token, p)
                     ELSE EnterRequest(c, rec, r.token, p)
    /\ UNCHANGED <<hasProxy, boost, url, queryString>>

\* the site root answers the acquisition request: lines 220-227, and then
\* the caller's continuation, line 98 after line 95 and line 130 after 129
AcquisitionResponse(c, hdr, p) ==
    /\ call[c].pc \in {"acq95", "acq129"}
    /\ ~BoostRunning
    /\ \E r \in {ParseSetCookie(hdr)} :
         LET rec == [call[c] EXCEPT !.setCookie = hdr]
         IN  IF r.err # ""
             THEN /\ call' = [call EXCEPT ![c] =
                          Throw([rec EXCEPT !.failedAt = call[c].pc],
                                IF r.err = "Cannot fetch cookie"
                                THEN "SessionAcquisitionError" ELSE r.err)]
                  /\ UNCHANGED sent
                  /\ UNCHANGED sessionCookie
             ELSE /\ sessionCookie' = r.token
                  /\ IF call[c].pc = "acq95"
                     THEN StartGet(c, rec, r.token, p)
                     ELSE EnterRequest(c, rec, r.token, p)
    /\ UNCHANGED <<hasProxy, boost, url, queryString>>

\* With several callers the two halves of AcquisitionResponse are two steps,
\* between which the continuations of other callers may run.
\* CookieStored that keeps a token already held: the first acquisition wins
CookieStoredKeepsHeld(c, hdr) ==
    /\ call[c].pc \in {"acq95", "acq129"}
    /\ ~BoostRunning
    /\ \E r \in {ParseSetCookie(hdr)} :
         LET rec == [call[c] EXCEPT !.setCookie = hdr]
         IN  IF r.err # ""
             THEN /\ call' = [call EXCEPT ![c] =
                          Throw([rec EXCEPT !.failedAt = call[c].pc],
                                IF r.err = "Cannot fetch cookie"
                                THEN "SessionAcquisitionError" ELSE r.err)]
                  /\ UNCHANGED sessionCookie
             ELSE /\ sessionCookie' = (IF Truthy(sessionCookie)
                                      THEN sessionCookie ELSE r.token)
                  /\ call' = [call EXCEPT ![c] =
                          [rec EXCEPT !.pc = IF call[c].pc = "acq95"
                                             THEN "resume95" ELSE "resume129"]]
    /\ UNCHANGED <<hasProxy, sent, boost, url, queryString>>

\* CookieStored: the site root answers; lines 220-227, then #fetchSessionCookie
\* returns and the continuation of the caller's await is queued.
CookieStored(c, hdr) ==
    /\ call[c].pc \in {"acq95", "acq129"}
    /\ ~BoostRunning
    /\ \E r \in {ParseSetCookie(hdr)} :
         LET rec == [call[c] EXCEPT !.setCookie = hdr]
         IN  IF r.err # ""
             THEN /\ call' = [call EXCEPT ![c] =
                          Throw([rec EXCEPT !.failedAt = call[c].pc],
                                IF r.err = "Cannot fetch cookie"
                                THEN "SessionAcquisitionError" ELSE r.err)]
                  /\ UNCHANGED sessionCookie
             ELSE /\ sessionCookie' = r.token
                  /\ call' = [call EXCEPT ![c] =
                          [rec EXCEPT !.pc = IF call[c].pc = "acq95"
                                             THEN "resume95" ELSE "resume129"]]
    /\ UNCHANGED <<hasProxy, sent, boost, url, queryString>>

\* Resumed: the continuation runs with the token held now: line 98 after the
\* await of line 95, line 130 (and so line 94) after the await of line 129
Resumed(c, p) ==
    /\ call[c].pc \in {"resume95", "resume129"}
    /\ ~BoostRunning
    /\ IF call[c].pc = "resume95"
       THEN StartGet(c, call[c], sessionCookie, p)
       ELSE EnterRequest(c, call[c], sessionCookie, p)
    /\ UNCHANGED <<hasProxy, sessionCookie, boost, url, queryString>>

\* GetResponse that re-acquires and retries on not_found as well
GetResponseRetriesNotFound(c, text, p) ==
    /\ call[c].pc = "get"
    /\ ~BoostRunning
    /\ \E r \in {Classify(text, sent[c].proxy)} :
         LET rec == [call[c] EXCEPT !.text = text]
         IN  IF r.kind \in {"StaleToken", "NotFoundError"}
             THEN StartFetchSessionCookie(c,
                      [rec EXCEPT !.nStale = @ + (IF r.kind = "StaleToken" THEN 1 ELSE 0),
                                  !.staleCookie = sent[c].cookie],
                      "acq129", p)
             ELSE /\ call' = [call EXCEPT ![c] =
                          [rec EXCEPT !.pc = "done", !.result = r.kind,
                                      !.payload = r.payload]]
                  /\ UNCHANGED sent
    /\ UNCHANGED <<hasProxy, sessionCookie, boost, url, queryString>>

\* the server answers the authenticated GET: lines 114-137
GetResponse(c, text, p) ==
    /\ call[c].pc = "get"
    /\ ~BoostRunning
    /\ \E r \in {Classify(text, sent[c].proxy)} :
         LET rec == [call[c] EXCEPT !.text = text]
         IN  IF r.kind = "StaleToken"
             THEN StartFetchSessionCookie(c,
                      [rec EXCEPT !.nStale = @ + 1, !.staleCookie = sent[c].cookie],
                      "acq129", p)
             ELSE /\ call' = [call EXCEPT ![c] =
                          [rec EXCEPT !.pc = "done", !.result = r.kind,
                                      !.payload = r.payload]]
                  /\ UNCHANGED sent
    /\ UNCHANGED <<hasProxy, sessionCookie, boost, url, queryString>>

\* ---------------------------------------------------------------- boostItem
IdleBoost ==
    [ pc |-> "idle", views |-> 0, i |-> 0,
      dispatched |-> 0,   \* fetch calls made
      failures |-> 0,     \* attempts that threw before the fetch was made
      nProxy |-> 0,       \* calls of getProxy made
      proxy |-> "", cookie |-> Undefined ]   \* of the last fetch made

\* boostItem that starts by forgetting the session
BoostItemResetsSession(views) ==
    /\ boost.pc \in {"idle", "returned"}
    /\ boost' = [IdleBoost EXCEPT !.pc = "loop", !.views = views]
    /\ sessionCookie' = Undefined
    /\ UNCHANGED <<hasProxy, call, sent, url, queryString>>

\* boostItem(url, views), line 65 and the loop's i = 0
BoostItem(views) ==
    /\ boost.pc \in {"idle", "returned"}
    /\ boost' = [IdleBoost EXCEPT !.pc = "loop", !.views = views]
    /\ UNCHANGED <<hasProxy, sessionCookie, call, sent, url, queryString>>

\* a catch clause that does not take the failed attempt back
BoostCatchNoDecrement(b) == [b EXCEPT !.i = @ + 1, !.failures = @ + 1]

\* no catch clause: the failure of the attempt leaves boostItem
BoostCatchRethrows(b) == [b EXCEPT !.pc = "threw", !.failures = @ + 1]

\* a catch clause that leaves the loop
BoostCatchGivesUp(b) == [b EXCEPT !.pc = "returned", !.failures = @ + 1]

\* the catch clause of line 78-80 followed by the loop's i += 1
BoostCatch(b) == [b EXCEPT !.i = (@ - 1) + 1, !.failures = @ + 1]

\* one evaluation of the loop, lines 66-81: the test i < views, then one
\* attempt with the proxy outcome p
BoostStep(p) ==
    /\ boost.pc = "loop"
    /\ IF ~(boost.i < boost.views)
       THEN boost' = [boost EXCEPT !.pc = "returned"]
       ELSE IF p = ProxyThrows
       THEN /\ boost.failures < MaxFailures
            /\ boost' = [BoostCatch(boost) EXCEPT !.nProxy = @ + 1]
       ELSE boost' = [boost EXCEPT !.i = @ + 1, !.dispatched = @ + 1,
                                   !.nProxy = @ + (IF hasProxy THEN 1 ELSE 0),
                                   !.proxy = p, !.cookie = Undefined]
    /\ UNCHANGED <<hasProxy, sessionCookie, call, sent, url, queryString>>

\* -------------------------------------------------------------- #getQueryParameters alone
NotRun == [err |-> "(not run)", val |-> <<>>]

Normalize ==
    /\ queryString = NotRun
    /\ queryString' = GetQueryParameters(url)
    /\ UNCHANGED <<hasProxy, sessionCookie, call, sent, boost, url>>

\* the search URLs: a prefix and a query string of parameters joined by "&"
GoodPrefix == <<"https://", "www.", "vinted", ".", "be", "/", "catalog", "?">>

ParamPool ==
    { <<"catalog", "[]", "=", "1">>,
      <<"catalog", "[]", "=", "2">>,
      <<"status", "%5B%5D", "=", "1">>,
      <<"brand", "[]", "=", "2">>,
      <<"brand", "s", "=", "1">>,
      <<"x", "catalog", "[]", "=", "1">>,
      <<"time", "=", "999">>,
      <<"brand", "=">>,
      <<"brand", "=", "1">>,
      <<"2", "=", "1">>,
      <<"1", "=", "2">>,
      <<"__proto__", "=", "1">>,
      <<"toString", "=", "1">>,
      <<"brand">>,
      <<"brand", "=", "1", "=", "2">> }

RECURSIVE JoinParams(_)
JoinParams(ps) ==
    IF Len(ps) = 1 THEN ps[1]
    ELSE ps[1] \o <<"&">> \o JoinParams(Tail(ps))

Queries == {JoinParams(ps) : ps \in UNION {[1..k -> ParamPool] : k \in 1..MaxParams}}

OtherPrefixes ==
    { <<"http://", "www.", "vinted", ".", "be", "/", "catalog", "?">>,
      <<"https://", "vinted", ".", "be", "/", "vetements", "?">>,
      <<"https://", "www-", "vinted", ".", "be", "/", "catalog", "?">>,
      <<"https://", "www.", "example", ".", "be", "/", "catalog", "?">>,
      <<"https://", "www.", "vinted", ".", "be", "/", "items", "?">>,
      <<"https://", "www.", "vinted", ".", "be", "/", "catalog">>,
      <<"https://", "www.", "vinted", ".", "be", "/", "catalog", "?", "?">>,
      <<"https://", "www.", "vinted", ".", "be", "/", "catalog", "?", Blank>>,
      <<"https://", "www.", "vinted", ".", "be", "/", "catalog", "?", "%">> }

FewQueries == { <<>>, <<"brand", "=", "1">>, <<"brand", "=", "1", "?", "x", "=", "2">> }

SearchInputs ==
    {GoodPrefix \o q : q \in Queries}
        \cup {pre \o q : pre \in OtherPrefixes, q \in FewQueries}

\* the search URLs the callers of the pipeline pass
SampleUrls ==
    { GoodPrefix \o <<"catalog", "[]", "=", "1", "&", "time", "=", "999">>,
      GoodPrefix \o <<"brand", "=", "%">>,
      <<"https://", "www.", "example", ".", "be", "/", "catalog", "?", "x", "=", "1">> }

\* ------------------------------------------------------------ specifications
\* answers that fall into each class of the classification once
CoreBodies ==
    { <<>>,
      <<[key |-> "", val |-> RateLimitText]>>,
      <<[key |-> "", val |-> "<"]>>,
      <<[key |-> "", val |-> "null"]>>,
      <<[key |-> "message_code", val |-> "invalid_authentication_token"]>>,
      <<[key |-> "message_code", val |-> "not_found"]>>,
      <<[key |-> "items", val |-> "[]"]>> }

\* set-cookie headers of each kind once
CoreHeaders ==
    { NoHeader,
      <<"a">>,
      <<CookieName>>,
      <<CookieName, "=">>,
      <<CookieName, "=", "a">>,
      <<CookieName, "=", "a", "a", ";">> }

InitPipeline ==
    /\ sessionCookie = Undefined
    /\ call = [c \in Callers |-> IdleCall]
    /\ sent = [c \in Callers |-> NoRequest]

Init ==
    /\ hasProxy \in BOOLEAN
    /\ InitPipeline
    /\ boost = IdleBoost
    /\ url = <<>>
    /\ queryString = NotRun

Search(c) == \E u \in SampleUrls, p \in ProxyInputs : SearchCall(c, u, p)
FetchUser(c) == \E id \in Ids, p \in ProxyInputs : StartCall(c, UserUrl(id), p)
FetchItem(c) == \E id \in Ids, p \in ProxyInputs : StartCall(c, ItemUrl(id), p)
Acquired(c) == \E hdr \in Headers, p \in ProxyInputs : AcquisitionResponse(c, hdr, p)
AcquiredCore(c) == \E hdr \in CoreHeaders, p \in ProxyInputs : AcquisitionResponse(c, hdr, p)
Answered(c) == \E text \in Bodies, p \in ProxyInputs : GetResponse(c, text, p)
AnsweredCore(c) == \E text \in CoreBodies, p \in ProxyInputs : GetResponse(c, text, p)

\* One caller, whose calls never overlap; the site root answers with a
\* header of each kind, the API with a body of each class.
Next ==
    \/ Search("A")
    \/ FetchUser("A")
    \/ FetchItem("A")
    \/ AcquiredCore("A")
    \/ AnsweredCore("A")

Spec == Init /\ [][Next]_vars

\* One caller; the API answers with any body.
NextClassify ==
    \/ FetchItem("A")
    \/ AcquiredCore("A")
    \/ Answered("A")

SpecClassify == Init /\ [][NextClassify]_vars

\* One caller without proxies; the site root answers with any header.
InitCookie ==
    /\ hasProxy = FALSE
    /\ InitPipeline
    /\ boost = IdleBoost
    /\ url = <<>>
    /\ queryString = NotRun

NextCookie ==
    \/ FetchItem("A")
    \/ Acquired("A")
    \/ AnsweredCore("A")

SpecCookie == InitCookie /\ [][NextCookie]_vars

\* boostItem in every state of the session
InitBoost ==
    /\ hasProxy \in BOOLEAN
    /\ sessionCookie \in {Undefined, <<>>, <<"a">>}
    /\ call = [c \in Callers |-> IdleCall]
    /\ sent = [c \in Callers |-> NoRequest]
    /\ boost = IdleBoost
    /\ url = <<>>
    /\ queryString = NotRun

NextBoost ==
    \/ \E views \in (0 - 1)..MaxViews : BoostItem(views)
    \/ \E p \in ProxyInputs : BoostStep(p)

SpecBoost == InitBoost /\ [][NextBoost]_vars

\* boostItem is one synchronous run: once called, its loop keeps stepping
SpecBoostFair ==
    InitBoost /\ [][NextBoost]_vars /\ WF_vars(\E p \in ProxyInputs : BoostStep(p))

\* #getQueryParameters on every search URL
InitNorm ==
    /\ hasProxy = FALSE
    /\ InitPipeline
    /\ boost = IdleBoost
    /\ url \in SearchInputs
    /\ queryString = NotRun

SpecNorm == InitNorm /\ [][Normalize]_vars

\* One caller of fetchItem and boostItem, called in any state of the pipeline
\* (boostItem has no await: it runs from its call to its return without any
\* other step).
NextFacade ==
    \/ FetchItem("A")
    \/ AcquiredCore("A")
    \/ AnsweredCore("A")
    \/ \E views \in 0..MaxViews : BoostItem(views)
    \/ \E p \in ProxyInputs : BoostStep(p)

SpecFacade == Init /\ [][NextFacade]_vars

\* Two callers whose calls overlap, without proxies: A calls search, B calls
\* fetchItem.  The site root answers with no cookie, an
\* empty one or one of two tokens; the API answers that the token is stale or
\* with a payload.
FewHeaders ==
    { NoHeader,
      <<CookieName, "=">>,
      <<CookieName, "=", "a">>,
      <<CookieName, "=", "a", "a">> }

FewBodies ==
    { <<[key |-> "message_code", val |-> "invalid_authentication_token"]>>,
      <<[key |-> "items", val |-> "[]"]>> }

Stored(c) == \E hdr \in FewHeaders : CookieStored(c, hdr)
Continued(c) == \E p \in ProxyInputs : Resumed(c, p)
AnsweredFew(c) == \E text \in FewBodies, p \in ProxyInputs : GetResponse(c, text, p)

NextConcurrent ==
    \/ Search("A")
    \/ FetchItem("B")
    \/ \E c \in Callers :
        \/ Stored(c)
        \/ Continued(c)
        \/ AnsweredFew(c)

SpecConcurrent == InitCookie /\ [][NextConcurrent]_vars

\* ================================================================== claims
ClassifiedErrors ==
    {"RateLimitError", "GatewayError", "MalformedJsonError", "NotFoundError"}

\* C1: a call whose first response and whose retry response both carry
\* invalid_authentication_token is settled with AuthenticationError, having
\* issued exactly two authenticated GETs and exactly one forced acquisition.
C1_RetryAtMostOnce ==
    \A c \in Callers :
        call[c].nStale >= 2 =>
            /\ call[c].pc = "done"
            /\ call[c].result = "AuthenticationError"
            /\ call[c].nGet = 2
            /\ call[c].nForced = 1

\* C2 as stated: when the first response is stale and the retry response a
\* success payload, the token the retry carried differs from the token the
\* first attempt carried.
C2_TokenDiffers ==
    \A c \in Callers :
        (call[c].pc = "done" /\ call[c].result = "Success"
            /\ call[c].nStale = 1 /\ call[c].nGet = 2)
        => call[c].tokenChanged

\* C2 as amended: when the first response is stale and the retry response a
\* success payload, the call returns the object parsed from that response
\* (with the proxy of the retry, if any), the retry went to the url of the call
\* after the one forced acquisition had answered, and it carried the token
\* this acquisition stored, which is the token held.
C2_RetryAfterRefresh ==
    \A c \in Callers :
        (call[c].pc = "done" /\ call[c].result = "Success"
            /\ call[c].nStale = 1 /\ call[c].nGet = 2)
        => /\ call[c].payload =
                (IF sent[c].proxy # ""
                 THEN WithProxy(JsonObject(call[c].text), sent[c].proxy)
                 ELSE JsonObject(call[c].text))
           /\ MessageCode(call[c].payload)
                \notin {"invalid_authentication_token", "not_found"}
           /\ sent[c].kind = "get"
           /\ sent[c].url = call[c].url
           /\ call[c].nForced = 1
           /\ call[c].setCookie # NoResponse
           /\ ParseSetCookie(call[c].setCookie).err = ""
           /\ sent[c].cookie = ParseSetCookie(call[c].setCookie).token
           /\ sent[c].cookie = sessionCookie

\* a stale first response, a refresh that stored another token, a success
C2_Witness ==
    \E c \in Callers :
        /\ call[c].pc = "done" /\ call[c].result = "Success"
        /\ call[c].nStale = 1 /\ call[c].nGet = 2
        /\ call[c].tokenChanged
        /\ call[c].startHeld

\* C3 as stated: a call that starts with a token held issues an acquisition
\* request only after a StaleToken classification, one per StaleToken.
C3_OnlyAfterStale ==
    \A c \in Callers :
        call[c].startHeld => call[c].nAcq <= call[c].nStale

\* C3 as amended: every GET in flight carries the token held; every retry is
\* preceded by exactly one forced acquisition per StaleToken; a call that
\* started with a token held and saw no StaleToken issued no acquisition; and
\* the only other acquisition of a call that started with a token held is the
\* one its retry issues at line 95 when the forced acquisition stored the
\* empty string.
C3_TokenUsedUntilStale ==
    \A c \in Callers :
        /\ call[c].pc = "get" =>
                /\ sent[c].kind = "get"
                /\ sent[c].cookie = sessionCookie
                /\ call[c].nForced = call[c].nStale
        /\ call[c].nForced <= call[c].nStale
        /\ (call[c].startHeld /\ call[c].nStale = 0) => call[c].nAcq = 0
        /\ (call[c].startHeld /\ call[c].pc = "acq95") =>
                /\ sessionCookie = <<>>
                /\ call[c].nStale >= 1

\* a call that started with a token held, was told the token is stale once
\* and retried with the re-acquired token
C3_Witness ==
    \E c \in Callers :
        /\ call[c].startHeld /\ call[c].pc = "get"
        /\ call[c].nStale = 1 /\ call[c].nAcq = 1 /\ call[c].nGet = 2
        /\ Truthy(sessionCookie)

\* C4: a body that includes the rate-limit text settles the call with
\* RateLimitError, whatever else it includes, and nothing is retried.
C4_RateLimitFirst ==
    \A c \in Callers :
        (call[c].text # NoText /\ IncludesRateLimit(call[c].text))
        => /\ call[c].pc = "done"
           /\ call[c].result = "RateLimitError"
           /\ sent[c].kind = "get"

\* a JSON object with the stale-token sentinel and the rate-limit text
C4_Witness ==
    \E c \in Callers :
        /\ call[c].result = "RateLimitError"
        /\ IsJson(call[c].text)
        /\ MessageCode(JsonObject(call[c].text)) = "invalid_authentication_token"
        /\ IncludesRateLimit(call[c].text)

\* C5: a body without the rate-limit text that includes "<" settles the call
\* with GatewayError: no parse, no sentinel, no re-acquisition.
C5_GatewayBeforeJson ==
    \A c \in Callers :
        (call[c].text # NoText /\ ~IncludesRateLimit(call[c].text)
            /\ IncludesLt(call[c].text))
        => /\ call[c].pc = "done"
           /\ call[c].result = "GatewayError"
           /\ sent[c].kind = "get"

\* a JSON object with the stale-token sentinel and a "<" in a string
C5_Witness ==
    \E c \in Callers :
        /\ call[c].result = "GatewayError"
        /\ IsJson(call[c].text)
        /\ MessageCode(JsonObject(call[c].text)) = "invalid_authentication_token"

\* C6: a call that started with a token held and whose response is classified
\* RateLimited, GatewayError, MalformedJson or NotFound ends with that error
\* after one GET and no acquisition, the token held being the one the GET
\* carried; a call that started with a token held issues a second request
\* only after a StaleToken classification.
C6_TerminalErrorsFrame ==
    \A c \in Callers :
        /\ (call[c].startHeld /\ call[c].pc = "done" /\ call[c].nStale = 0
                /\ call[c].result \in ClassifiedErrors)
           => /\ call[c].nGet = 1
              /\ call[c].nAcq = 0
              /\ sent[c].kind = "get"
              /\ sent[c].cookie = sessionCookie
              /\ Truthy(sessionCookie)
        /\ (call[c].startHeld /\ call[c].nGet + call[c].nAcq > 1)
           => call[c].nStale >= 1

\* a call that started with a token held and ended with not_found
C6_Witness ==
    \E c \in Callers :
        /\ call[c].startHeld /\ call[c].pc = "done"
        /\ call[c].result = "NotFoundError"
        /\ call[c].nGet = 1

\* the text from the first "<cookie name>=" of the header to the next ";"
\* (to the end of the header when no ";" follows)
TextUpToSemicolon(h) ==
    LET i    == IndexOf(h, <<CookieName, "=">>)
        rest == SubSeq(h, i + 2, Len(h))
        j    == IndexOf(rest, <<";">>)
    IN  IF j = 0 THEN rest ELSE SubSeq(rest, 1, j - 1)

\* the call ended in #fetchSessionCookie: its last request is an acquisition
AcquisitionFailed(c) ==
    /\ call[c].pc = "done"
    /\ sent[c].kind = "acq"
    /\ call[c].result \in {"SessionAcquisitionError", "TypeError"}

\* C7: the acquisition fails with SessionAcquisitionError when the response
\* has no set-cookie header or one without the cookie name; when it succeeds
\* the token held is the text between the cookie name's "=" and the next ";";
\* a call whose first acquisition fails issues no authenticated GET.
C7_SessionAcquisition ==
    \A c \in Callers :
        LET h == call[c].setCookie
        IN  h # NoResponse =>
            /\ (h = NoHeader \/ ~Includes(h, <<CookieName>>))
                    => (call[c].pc = "done"
                        /\ call[c].result = "SessionAcquisitionError")
            /\ ~AcquisitionFailed(c) => sessionCookie = TextUpToSemicolon(h)
            /\ (AcquisitionFailed(c) /\ call[c].nStale = 0) => call[c].nGet = 0

\* C8: when boostItem has returned, the fetch calls it made are as many as
\* the views asked (views >= 0); a failed attempt does not advance the loop.
C8_DispatchedEqualsCount ==
    /\ (boost.pc = "returned" /\ boost.views >= 0) => boost.dispatched = boost.views
    /\ boost.pc \in {"loop", "returned"} => boost.dispatched = boost.i

\* boostItem returned after three dispatches and at least one failed attempt
C8_Witness ==
    /\ boost.pc = "returned"
    /\ boost.views = 3
    /\ boost.dispatched = 3
    /\ boost.failures >= 1

\* C9: boostItem never throws: after a failed attempt it is still in its
\* loop or has returned.
C9_NeverThrows ==
    /\ boost.pc \in {"idle", "loop", "returned"}
    /\ boost.failures > 0 => boost.pc \in {"loop", "returned"}

\* an attempt failed and boostItem is still in its loop
C9_Witness ==
    /\ boost.pc = "loop"
    /\ boost.failures = 2
    /\ boost.dispatched = 1

\* the keys of the query string of the decoded url, and of the rendered string
KeysOf(q) ==
    IF q = <<>> THEN {}
    ELSE LET ps == Split(q, <<"&">>)
         IN  {Split(ps[i], <<"=">>)[1] : i \in 1..Len(ps)}

InputKeys == KeysOf(Split(DecodeURI(url).val, <<"?">>)[2])
OutputKeys == KeysOf(queryString.val)
Accepted == queryString # NotRun /\ queryString.err = ""

\* the renaming C10 states: catalog[] and status[] get _ids, any other key
\* that ends in [] gets s for its []
StatedKey(k) ==
    IF k = <<"catalog", "[]">> THEN <<"catalog", "_id", "s">>
    ELSE IF k = <<"status", "[]">> THEN <<"status", "_id", "s">>
    ELSE IF Len(k) >= 1 /\ k[Len(k)] = "[]" THEN SubSeq(k, 1, Len(k) - 1) \o <<"s">>
    ELSE k

\* the renaming that holds: every [] of the key becomes s, and _ids when the
\* text before it ends in catalog or status
RECURSIVE RenamedKey(_)
RenamedKey(k) ==
    IF k = <<>> THEN <<>>
    ELSE LET n == Len(k)
             init == RenamedKey(SubSeq(k, 1, n - 1))
         IN  IF k[n] # "[]" THEN init \o <<k[n]>>
             ELSE IF n >= 2 /\ k[n - 1] \in {"catalog", "status"}
             THEN init \o <<"_id", "s">>
             ELSE init \o <<"s">>

ExampleUrl ==
    GoodPrefix \o <<"catalog", "[]", "=", "1", "&", "catalog", "[]", "=", "2",
                    "&", "time", "=", "999">>

\* C10 as stated: of an accepted url every key is in the output under its
\* stated name unless that is time, and no output key is time.
C10_StatedRenaming ==
    Accepted =>
        /\ \A k \in InputKeys : StatedKey(k) # <<"time">> => StatedKey(k) \in OutputKeys
        /\ <<"time">> \notin OutputKeys

\* C10 as amended: the keys of the output are the renamed keys of the input
\* without time and without __proto__, and the example yields catalog_ids=1,2.
C10_Renaming ==
    Accepted =>
        /\ OutputKeys =
                {RenamedKey(k) : k \in InputKeys} \ {<<"time">>, <<"__proto__">>}
        /\ \A k \in InputKeys :
                /\ k = <<"catalog", "[]">> => <<"catalog", "_id", "s">> \in OutputKeys
                /\ k = <<"status", "[]">> => <<"status", "_id", "s">> \in OutputKeys
        /\ url = ExampleUrl =>
                queryString.val = <<"catalog", "_id", "s", "=", "1", ",", "2">>

\* the example of the claim has been normalised
C10_Witness ==
    /\ url = ExampleUrl
    /\ queryString.err = ""
    /\ queryString.val = <<"catalog", "_id", "s", "=", "1", ",", "2">>

\* the parameters of the accepted url after the renaming, and of the output
InputParams == Split(Substitute(Split(DecodeURI(url).val, <<"?">>)[2]), <<"&">>)
OutputParams ==
    IF queryString.val = <<>> THEN <<>> ELSE Split(queryString.val, <<"&">>)

ParamKey(param) == Split(param, <<"=">>)[1]
ParamValue(param) == Split(param, <<"=">>)[2]

\* the values of the input parameters with key k, in encounter order
ValuesOf(k) ==
    LET same == SelectSeq(InputParams, LAMBDA param : ParamKey(param) = k)
    IN  [i \in 1..Len(same) |-> ParamValue(same[i])]

RECURSIVE JoinWithComma(_)
JoinWithComma(vs) ==
    IF Len(vs) = 1 THEN vs[1]
    ELSE vs[1] \o <<",">> \o JoinWithComma(Tail(vs))

\* the keys of Object.prototype do not occur in the url
PlainKeys ==
    \A k \in InputKeys : k # <<"__proto__">> /\ k \notin InheritedMethods

\* C11: of an accepted url, every key other than time appears exactly once in
\* the output, with the comma-joined list of all the values of that key in
\* encounter order, an empty value included.
C11_MergeAll ==
    (Accepted /\ PlainKeys) =>
        \A k \in {ParamKey(InputParams[i]) : i \in 1..Len(InputParams)} \ {<<"time">>} :
            /\ Cardinality({i \in 1..Len(OutputParams) : ParamKey(OutputParams[i]) = k}) = 1
            /\ \A i \in 1..Len(OutputParams) :
                    ParamKey(OutputParams[i]) = k
                        => ParamValue(OutputParams[i]) = JoinWithComma(ValuesOf(k))

\* the sequence ks without the repetitions of its elements
RECURSIVE FirstOccurrences(_)
FirstOccurrences(ks) ==
    IF ks = <<>> THEN <<>>
    ELSE LET init == FirstOccurrences(SubSeq(ks, 1, Len(ks) - 1))
             last == ks[Len(ks)]
         IN  IF \E i \in 1..Len(init) : init[i] = last
             THEN init ELSE Append(init, last)

\* C12: the keys of the output are the keys of the input other than time, in
\* the order of their first occurrence, integer keys included.
C12_FirstOccurrenceOrder ==
    (Accepted /\ PlainKeys) =>
        [i \in 1..Len(OutputParams) |-> ParamKey(OutputParams[i])]
            = SelectSeq(
                FirstOccurrences([i \in 1..Len(InputParams) |-> ParamKey(InputParams[i])]),
                LAMBDA k : k # <<"time">>)

\* the conditions C13 states, on the decoded url u:
\* https, an optional www., vinted.<tld>, /vetements or /catalog
StatedHostPath(u) ==
    \E k \in {2, 3} :
        /\ Len(u) >= k + 4
        /\ u[1] = "https://"
        /\ k = 3 => u[2] = "www."
        /\ u[k] = "vinted"
        /\ u[k + 1] = "."
        /\ u[k + 2] \in LowerAlpha
        /\ u[k + 3] = "/"
        /\ u[k + 4] \in {"vetements", "catalog"}
        /\ Len(u) > k + 4 => u[k + 5] = "?"

\* a "?" followed by a non-empty query string
StatedQuery(u) == IndexOf(u, <<"?">>) # 0 /\ IndexOf(u, <<"?">>) < Len(u)

\* some "&"-separated parameter does not split into two parts on "="
StatedBadParam(u) ==
    /\ StatedQuery(u)
    /\ LET ps == Split(SubSeq(u, IndexOf(u, <<"?">>) + 1, Len(u)), <<"&">>)
       IN  \E i \in 1..Len(ps) : Len(Split(ps[i], <<"=">>)) # 2

Rejectable(u) == ~StatedHostPath(u) \/ ~StatedQuery(u) \/ StatedBadParam(u)

InvalidUrlErrors ==
    {"Invalid URI format", "Invalid URI parameters", "Invalid URI parameters: param"}

\* C13: a url (with well-formed escapes) that meets one of the three stated
\* conditions is rejected with InvalidUrlError, and a query string is returned
\* only for a url that meets none.
C13_InvalidUrl ==
    (queryString # NotRun /\ DecodeURI(url).err = "") =>
        /\ Rejectable(DecodeURI(url).val) => queryString.err \in InvalidUrlErrors
        /\ queryString.err = "" => ~Rejectable(DecodeURI(url).val)

\* the step completes an acquisition of caller c: the cookie is stored
CompletesAcquisition(c) ==
    /\ call[c].pc \in {"acq95", "acq129"}
    /\ call'[c].pc \in {"resume95", "resume129"}

\* the token of the acquisition response c has just handled
StoredBy(c) == ParseSetCookie(call'[c].setCookie).token

Outcomes ==
    ClassifiedErrors \cup {"Success", "SessionAcquisitionError", "InvalidUrlError", "URIError"}

C15_ProxyFreshPerRequest ==
    /\ hasProxy =>
        /\ \A c \in Callers :
            /\ call[c].nProxy = call[c].nGet + call[c].nAcq
                    + (IF call[c].result = "ProxyError" THEN 1 ELSE 0)
            /\ call[c].pc \in {"acq95", "acq129", "get"}
                    => sent[c].proxy = call[c].gotProxy
        /\ boost.nProxy = boost.dispatched + boost.failures
    /\ ~hasProxy =>
        /\ \A c \in Callers : call[c].nProxy = 0 /\ sent[c].proxy = ""
        /\ boost.nProxy = 0 /\ boost.proxy = ""

\* a call that acquired, was told the token is stale, re-acquired and retried,
\* each request with its own proxy outcome, and a boostItem with a failed
\* attempt
C15_Witness ==
    /\ hasProxy
    /\ call["A"].pc = "get"
    /\ call["A"].nStale = 1
    /\ call["A"].nProxy = 4
    /\ sent["A"].proxy = ""
    /\ boost.pc = "returned"
    /\ boost.dispatched = 2
    /\ boost.failures = 1
    /\ boost.proxy = "proxy1"

C17_BoostIndependentOfSession ==
    /\ [](boost.cookie = Undefined)
    /\ [][boost' # boost
            => /\ sessionCookie' = sessionCookie
               /\ call' = call
               /\ sent' = sent]_vars

\* boostItem is dispatching while a token is held and a forced acquisition
\* is in flight
C17_Witness ==
    /\ boost.pc = "loop"
    /\ boost.dispatched >= 1
    /\ call["A"].pc = "acq129"
    /\ Truthy(sessionCookie)

\* the caller's last call is a search whose url #getQueryParameters rejects
RejectedSearch(rec) ==
    rec.source # <<>> /\ GetQueryParameters(rec.source).err # ""

NothingIssued(c) ==
    /\ call[c].pc = "done"
    /\ call[c].nGet = 0
    /\ call[c].nAcq = 0
    /\ call[c].nProxy = 0
    /\ sent[c] = NoRequest

ForcedFailed(c) ==
    /\ call[c].pc = "done"
    /\ call[c].result = "SessionAcquisitionError"
    /\ call[c].failedAt = "acq129"

\* the retry was not issued and the stale token is still held
StaleTokenKept(c) ==
    /\ call[c].nGet = call[c].nStale
    /\ sent[c].kind = "acq"
    /\ sessionCookie = call[c].staleCookie

\* C19 as stated: when the forced acquisition fails the call ends without
\* the retry, the stale token stays held, and the caller's next call issues no
\* acquisition first and sends that token.
C19_StaleTokenReused ==
    /\ [](\A c \in Callers : ForcedFailed(c) => StaleTokenKept(c))
    /\ [][\A c \in Callers :
            (ForcedFailed(c) /\ call'[c] # call[c])
                => /\ call'[c].pc # "acq95"
                   /\ call'[c].pc = "get"
                        => sent'[c].cookie = call[c].staleCookie]_vars

\* C19 as amended: the same when the stale token is not the empty string; an
\* empty stale token stays held too, and the next call acquires first.
C19_StaleTokenKept ==
    /\ [](\A c \in Callers : ForcedFailed(c) => StaleTokenKept(c))
    /\ [][\A c \in Callers :
            (ForcedFailed(c) /\ call'[c] # call[c])
                => IF Truthy(call[c].staleCookie)
                   THEN /\ call'[c].pc # "acq95"
                        /\ call'[c].pc = "get"
                             => sent'[c].cookie = call[c].staleCookie
                   ELSE call'[c].pc \in {"acq95", "done"}]_vars

\* the forced acquisition failed and a non-empty stale token is held
C19_Witness ==
    /\ ForcedFailed("A")
    /\ call["A"].startHeld
    /\ Truthy(sessionCookie)
    /\ sessionCookie = call["A"].staleCookie

\* the step issues an authenticated GET of caller c
IssuesGet(c) == call'[c].pc = "get" /\ call'[c] # call[c]

\* C20: in every interleaving, a GET is issued with the token held at that
\* step, which is not undefined; no GET is in flight while the token is
\* undefined; and the token is only ever set by an acquisition that completes
\* with success, to the token of its response.
C20_GetCarriesStoredToken ==
    /\ [](\A c \in Callers :
            call[c].pc = "get"
                => sessionCookie # Undefined /\ sent[c].cookie # Undefined)
    /\ [][ /\ \A c \in Callers :
                IssuesGet(c)
                    => /\ sent'[c].kind = "get"
                       /\ sent'[c].cookie = sessionCookie
                       /\ sessionCookie' = sessionCookie
                       /\ sessionCookie # Undefined
           /\ \A c \in Callers :
                (sessionCookie' # sessionCookie /\ call'[c] # call[c])
                    => CompletesAcquisition(c) /\ sessionCookie' = StoredBy(c) ]_vars

\* two GETs in flight at once that carry different tokens
C20_Witness ==
    /\ call["A"].pc = "get"
    /\ call["B"].pc = "get"
    /\ sent["A"].cookie # sent["B"].cookie
    /\ sent["B"].cookie = sessionCookie

====
